---- MODULE Spec2Model ----
(***************************************************************************)
(* Word_Note: the spaced-repetition core of the vocabulary trainer.        *)
(*                                                                         *)
(* Modelled: LearningModel (_calculate_sm2_params,                          *)
(* update_word_after_learning, get_learning_words), the eager statistics   *)
(* row of WordModel.add_word, and the storage statements they issue        *)
(* through DatabaseConnection (every execute_non_query commits on its own).*)
(*                                                                         *)
(* Numbers.  Ease factors are Python floats in the source; the model keeps *)
(* them in hundredths (2.5 is 250, 1.3 is 130, -0.14 is -14).  The float    *)
(* value differs from the exact hundredth by a few ulps only, which can    *)
(* matter in one place: round(interval * new_ef) when the exact product    *)
(* ends in .5.  There the float product lies just below, on, or just above *)
(* the half, so the outcome is the lower or the upper neighbour; the model *)
(* takes that direction as an input (tie).                                 *)
(*                                                                         *)
(* Dates.  A timestamp is a pair day/second-of-day.  The strings the code  *)
(* stores and compares are sequences compared lexicographically, as SQLite *)
(* compares TEXT: 'YYYY-MM-DD' is <<day>>, 'YYYY-MM-DD HH:MM:SS' is         *)
(* <<day, sec>>.                                                           *)
(***************************************************************************)
EXTENDS Integers, Sequences, FiniteSets, TLC

(* ------------------------------ bounds --------------------------------- *)
MaxWords == 2
MaxReviews == 2
MaxFaults == 1
MaxDay == 2
SecPerDay == 2
MaxEf == 300
MaxInterval == 12
QualityMargin == 1
MaxPool == 3
MaxPoolAttempts == 1
MaxAttempts == 10
MaxCalls == 2
MaxProcs == 2
MaxSubmits == 3
MaxText == 2
MaxExams == 2

(* ------------------------- program constants --------------------------- *)
SM2_INITIAL_EASE_FACTOR == 250
SM2_MIN_EASE_FACTOR == 130

Qualities == 0..5
\* quality is an unchecked int parameter: the values a caller can pass
QualityInputs == (0 - QualityMargin)..(5 + QualityMargin)
NULL == <<>>

\* result, last and sched describe the last call only: what it returned, what
\* it was, and the engine call it made
\* weighting is the PersonalizationEngine's side: the word list handed to
\* it, the last call made on that list and what the call returned
VARIABLES words, stats, history, now, faults, result, last, sched, weighting

\* table is word_statistics as the rows it holds, and review the calls of
\* update_word_after_learning in flight, for the runs that look at single
\* storage statements
VARIABLES table, review

\* session is the LearningController's state, view the FlashcardView's, and
\* submissions records, for the session last started, the words it selected
\* and every process_review_result call made since
VARIABLES session, view, submissions

\* catalog is the english column of the words table by word_id;
\* exam_details holds, per exam_id, the word_ids answered wrongly; wrong_note
\* is the wrong_note table (the word_id of each row, the note_id being its
\* position) and added_count what auto_add_from_exam last returned
VARIABLES catalog, exam_details, wrong_note, added_count

vars == <<words, stats, history, now, faults, result, last, sched, weighting,
          table, review, session, view, submissions,
          catalog, exam_details, wrong_note, added_count>>

\* the word catalog's texts and the wrong note
aside == <<catalog, exam_details, wrong_note, added_count>>

\* the parts that the calls of LearningModel and PersonalizationEngine, taken
\* whole, leave alone
beside == <<table, review, session, view, submissions, aside>>

\* LearningController.__init__ / end_learning_session
NoSession ==
    [session_started |-> FALSE, current_session_words |-> <<>>,
     current_word_index |-> -1, session_length |-> 0]

\* FlashcardView.__init__: current_word_data = None
NoView == [current_word_data |-> 0, shows |-> "settings"]

NoSubmissions == [selected |-> <<>>, calls |-> <<>>]

BesideIdle ==
    /\ table = <<>>
    /\ review = <<>>
    /\ session = NoSession
    /\ view = NoView
    /\ catalog = <<>>
    /\ exam_details = <<>>
    /\ wrong_note = <<>>
    /\ added_count = 0
    /\ submissions = NoSubmissions

(* ------------------------------ helpers -------------------------------- *)
Range(s) == {s[i] : i \in 1..Len(s)}

\* the timedelta forgotten
AddNoDays(t, n) == t

\* datetime.now() + datetime.timedelta(days=n)
AddDays(t, n) == [day |-> t.day + n, sec |-> t.sec]

\* strftime("%Y-%m-%d %H:%M:%S")
FormatDateTime(t) == <<t.day, t.sec>>

\* strftime("%Y-%m-%d 00:00:00")
FormatMidnight(t) == <<t.day, 0>>

\* SQLite date('now'): 'YYYY-MM-DD' of the UTC day d
FormatDate(d) == <<d>>

\* SQLite's comparison of two TEXT values (BINARY collation): a <= b
TextLeq(a, b) ==
    \/ \E k \in 1..Len(a) :
          /\ k <= Len(b)
          /\ \A j \in 1..(k - 1) : a[j] = b[j]
          /\ a[k] < b[k]
    \/ /\ Len(a) <= Len(b)
       /\ \A j \in 1..Len(a) : a[j] = b[j]

\* int(n / 100): truncation instead of rounding
PyTruncate(n, tie) == n \div 100

\* Python round(n / 100) of the float product: nearest integer; an exact
\* half goes to the neighbour the float error picks (tie = 0 lower, 1 upper)
PyRound(n, tie) ==
    LET q == n \div 100
        r == n % 100
    IN  IF r > 50 THEN q + 1
        ELSE IF r < 50 THEN q
        ELSE q + tie

(* ------------------------- scheduling engine --------------------------- *)
\* the ease factor without its floor
NewEaseFactorNoFloor(old_ef, quality) ==
    old_ef + (10 - (5 - quality) * (8 + (5 - quality) * 2))

\* the ease factor with the ceiling of the simplified variant
NewEaseFactorCapped(old_ef, quality) ==
    LET new_ef == NewEaseFactorNoFloor(old_ef, quality)
    IN  IF new_ef < SM2_MIN_EASE_FACTOR THEN SM2_MIN_EASE_FACTOR
        ELSE IF new_ef > SM2_INITIAL_EASE_FACTOR THEN SM2_INITIAL_EASE_FACTOR
        ELSE new_ef

\* old_ef + (0.1 - (5 - quality) * (0.08 + (5 - quality) * 0.02)), floored
NewEaseFactor(old_ef, quality) ==
    LET new_ef == old_ef + (10 - (5 - quality) * (8 + (5 - quality) * 2))
    IN  IF new_ef < SM2_MIN_EASE_FACTOR THEN SM2_MIN_EASE_FACTOR ELSE new_ef

TieredInterval(interval, new_ef, tie) ==
    IF interval = 0 THEN 1
    ELSE IF interval = 1 THEN 6
    ELSE PyRound(interval * new_ef, tie)

\* textbook SM-2: a failed review restarts the interval at one day
Sm2RestartAtOne(old_ef, interval, quality, tie) ==
    LET new_ef == IF quality < 3 THEN old_ef ELSE NewEaseFactor(old_ef, quality)
    IN  [new_ef |-> new_ef,
         next_interval |-> IF quality < 3 THEN 1
                           ELSE TieredInterval(interval, new_ef, tie)]

_calculate_sm2_params(old_ef, interval, quality, tie) ==
    LET new_ef == IF quality < 3 THEN old_ef ELSE NewEaseFactor(old_ef, quality)
        next_interval == IF quality < 3 THEN 0
                         ELSE TieredInterval(interval, new_ef, tie)
    IN  [new_ef |-> new_ef,
         next_interval |-> IF next_interval < 1 /\ quality >= 3 THEN 1
                           ELSE next_interval]

\* the record of one engine call: its arguments and what it returned
EngineCall(old_ef, interval, quality, tie) ==
    LET r == _calculate_sm2_params(old_ef, interval, quality, tie)
    IN  [done |-> TRUE, old_ef |-> old_ef, interval |-> interval,
         quality |-> quality, new_ef |-> r.new_ef,
         next_interval |-> r.next_interval]

EngineArgs(old_ef, interval, quality) ==
    [done |-> FALSE, old_ef |-> old_ef, interval |-> interval,
     quality |-> quality, new_ef |-> 0, next_interval |-> 0]

NoEngineCall == EngineArgs(SM2_INITIAL_EASE_FACTOR, 0, 0)

(* --------------------------- storage statements ------------------------ *)
\* INSERT INTO word_statistics ... VALUES (?, 0, 0, 0, 2.5, 0)
InitialRow ==
    [total_attempts |-> 0, correct_count |-> 0, wrong_count |-> 0,
     ease_factor |-> SM2_INITIAL_EASE_FACTOR, interval_days |-> 0,
     next_study_date |-> NULL, last_study_date |-> NULL]

\* a first-review row that does not count the review as an attempt
FirstReviewRowNoAttempt(is_correct) ==
    [total_attempts |-> 0, correct_count |-> is_correct,
     wrong_count |-> 1 - is_correct,
     ease_factor |-> SM2_INITIAL_EASE_FACTOR, interval_days |-> 0,
     next_study_date |-> NULL, last_study_date |-> NULL]

\* INSERT INTO word_statistics ... VALUES (?, 1, ?, ?, ?, 0)
FirstReviewRow(is_correct) ==
    [total_attempts |-> 1, correct_count |-> is_correct,
     wrong_count |-> 1 - is_correct,
     ease_factor |-> SM2_INITIAL_EASE_FACTOR, interval_days |-> 0,
     next_study_date |-> NULL, last_study_date |-> NULL]

\* both counters bound to is_correct
UpdateCountersSameFlag(row, is_correct) ==
    [row EXCEPT !.total_attempts = @ + 1,
                !.correct_count = @ + is_correct,
                !.wrong_count = @ + is_correct]

\* UPDATE word_statistics SET total_attempts = total_attempts + 1, ...
UpdateCounters(row, is_correct) ==
    [row EXCEPT !.total_attempts = @ + 1,
                !.correct_count = @ + is_correct,
                !.wrong_count = @ + (1 - is_correct)]

\* the first two parameters of the UPDATE bound in the wrong order
UpdateScheduleSwapped(row, new_ef, next_interval, next_study_date, current_date) ==
    [row EXCEPT !.ease_factor = next_interval,
                !.interval_days = new_ef,
                !.next_study_date = next_study_date,
                !.last_study_date = current_date]

\* UPDATE word_statistics SET ease_factor = ?, interval_days = ?, ...
UpdateSchedule(row, new_ef, next_interval, next_study_date, current_date) ==
    [row EXCEPT !.ease_factor = new_ef,
                !.interval_days = next_interval,
                !.next_study_date = next_study_date,
                !.last_study_date = current_date]

\* the last two parameters of the INSERT bound in the wrong order
HistoryEntrySwapped(word_id, current_date, is_correct) ==
    [word_id |-> word_id, study_date |-> current_date,
     is_correct |-> 0, response_time |-> is_correct,
     study_type |-> "flashcard"]

\* INSERT INTO learning_history (...) VALUES (?, ?, ?, ?, 'flashcard')
HistoryEntry(word_id, current_date, is_correct) ==
    [word_id |-> word_id, study_date |-> current_date,
     is_correct |-> is_correct, response_time |-> 0,
     study_type |-> "flashcard"]

\* word_statistics is keyed by word_id (one row per word): a second INSERT
\* for the same word is a constraint violation
StatisticsKeyUnique == TRUE

(* ------------------------------ the clock ------------------------------ *)
NextInstant(t) ==
    IF t.sec + 1 < SecPerDay THEN [day |-> t.day, sec |-> t.sec + 1]
    ELSE [day |-> t.day + 1, sec |-> 0]

\* the instants a second datetime.now() of the same call can return
LaterReads(t) ==
    {t} \cup (IF NextInstant(t).day <= MaxDay THEN {NextInstant(t)} ELSE {})

(* ------------------------------ WordModel ------------------------------ *)
\* _initialize_word_statistics: the INSERT's failure is logged and swallowed
_initialize_word_statistics(st, word_id, fail) ==
    IF fail \/ (word_id \in DOMAIN st /\ StatisticsKeyUnique) THEN st
    ELSE st @@ (word_id :> InitialRow)

LastCall(op, word_id, quality, ret, limit, today) ==
    [op |-> op, word_id |-> word_id, quality |-> quality, ret |-> ret,
     limit |-> limit, today |-> today]

\* add_word: insert the word (AUTOINCREMENT id), then its statistics row
add_word(failStats) ==
    /\ Cardinality(words) < MaxWords
    /\ failStats => faults < MaxFaults
    /\ faults' = faults + (IF failStats THEN 1 ELSE 0)
    /\ LET word_id == Cardinality(words) + 1
       IN  /\ words' = words \cup {word_id}
           /\ stats' = _initialize_word_statistics(stats, word_id, failStats)
           /\ last' = LastCall("add_word", word_id, 0, TRUE, 0, now.day)
    /\ result' = <<>>
    /\ sched' = NoEngineCall
    /\ UNCHANGED <<history, now, weighting, beside>>

(* ---------------------------- LearningModel ---------------------------- *)
\* update_word_after_learning, statement by statement.  failAt names the
\* execute_non_query that raises (0: none; 1: history INSERT; 2: counter
\* INSERT/UPDATE; 3: schedule UPDATE); qf1/qf2 say that the first/second
\* SELECT hit a sqlite3.Error, which execute_query turns into [].  t1 and t2
\* are the two datetime.now() reads.  Every statement that succeeded is
\* committed when it ran.
ReviewOutcome(st, hist, word_id, quality, failAt, qf1, qf2, t1, t2, tie) ==
    LET current_date == FormatDateTime(t1)
        is_correct == IF quality >= 3 THEN 1 ELSE 0
        hist1 == Append(hist, HistoryEntry(word_id, current_date, is_correct))
        stats_check == (~qf1) /\ word_id \in DOMAIN st
        raise2 == \/ failAt = 2
                  \/ (~stats_check) /\ word_id \in DOMAIN st /\ StatisticsKeyUnique
        st1 == IF stats_check
               THEN [st EXCEPT ![word_id] = UpdateCounters(@, is_correct)]
               ELSE st @@ (word_id :> FirstReviewRow(is_correct))
        found == (~qf2) /\ word_id \in DOMAIN st1
        old_ef == IF found THEN st1[word_id].ease_factor
                  ELSE SM2_INITIAL_EASE_FACTOR
        interval == IF found THEN st1[word_id].interval_days ELSE 0
        call == EngineCall(old_ef, interval, quality, tie)
        next_study_date == FormatMidnight(AddDays(t2, call.next_interval))
        st2 == [st1 EXCEPT ![word_id] =
                   UpdateSchedule(@, call.new_ef, call.next_interval,
                                  next_study_date, current_date)]
    IN  IF failAt = 1
        THEN [ret |-> FALSE, stats |-> st, history |-> hist, called |-> FALSE,
              call |-> call]
        ELSE IF raise2
        THEN [ret |-> FALSE, stats |-> st, history |-> hist1, called |-> FALSE,
              call |-> call]
        ELSE IF failAt = 3
        THEN [ret |-> FALSE, stats |-> st1, history |-> hist1, called |-> TRUE,
              call |-> call]
        ELSE [ret |-> TRUE, stats |-> st2, history |-> hist1, called |-> TRUE,
              call |-> call]

update_word_after_learning(word_id, quality) ==
    /\ word_id \in words
    /\ Len(history) < MaxReviews
    /\ \E failAt \in 0..3, qf1 \in BOOLEAN, qf2 \in BOOLEAN,
          t2 \in LaterReads(now), tie \in 0..1 :
          LET nfaults == (IF failAt > 0 THEN 1 ELSE 0) + (IF qf1 THEN 1 ELSE 0)
                         + (IF qf2 THEN 1 ELSE 0)
              o == ReviewOutcome(stats, history, word_id, quality,
                                 failAt, qf1, qf2, now, t2, tie)
          IN  /\ faults + nfaults <= MaxFaults
              /\ faults' = faults + nfaults
              /\ stats' = o.stats
              /\ history' = o.history
              /\ sched' = IF o.called THEN o.call ELSE NoEngineCall
              /\ now' = IF failAt = 3 \/ o.ret THEN t2 ELSE now
              /\ last' = LastCall("record_review", word_id, quality, o.ret,
                                  0, now'.day)
    /\ result' = <<>>
    /\ UNCHANGED <<words, weighting, beside>>

\* the columns of words LEFT JOIN word_statistics that the query uses
JoinedDate(st, w) == IF w \in DOMAIN st THEN st[w].next_study_date ELSE NULL

\* WHERE next_study_date IS NULL OR next_study_date <= date('now')
\*    OR total_attempts IS NULL OR total_attempts = 0
Qualifies(st, w, utcDay) ==
    \/ JoinedDate(st, w) = NULL
    \/ TextLeq(JoinedDate(st, w), FormatDate(utcDay))
    \/ w \notin DOMAIN st
    \/ st[w].total_attempts = 0

\* an ORDER BY whose NULL dates sort after every dated row
BeforeNullsLast(st, a, b) ==
    LET da == JoinedDate(st, a)
        db == JoinedDate(st, b)
    IN  IF da = db THEN a < b
        ELSE IF da = NULL THEN FALSE
        ELSE IF db = NULL THEN TRUE
        ELSE TextLeq(da, db)

\* ORDER BY T1.next_study_date ASC, T0.word_id ASC (SQLite puts NULL first)
Before(st, a, b) ==
    LET da == JoinedDate(st, a)
        db == JoinedDate(st, b)
    IN  IF da = db THEN a < b
        ELSE IF da = NULL THEN TRUE
        ELSE IF db = NULL THEN FALSE
        ELSE TextLeq(da, db)

RECURSIVE OrderBy(_, _)
OrderBy(st, S) ==
    IF S = {} THEN <<>>
    ELSE LET m == CHOOSE x \in S : \A y \in S \ {x} : Before(st, x, y)
         IN  <<m>> \o OrderBy(st, S \ {m})

\* a LIMIT that lets one row too many through
LimitPlusOne(s, limit) ==
    SubSeq(s, 1, IF limit + 1 < Len(s) THEN limit + 1 ELSE Len(s))

\* LIMIT ?
Limit(s, limit) == SubSeq(s, 1, IF limit < Len(s) THEN limit ELSE Len(s))

SelectDue(st, ws, utcDay, limit) ==
    Limit(OrderBy(st, {w \in ws : Qualifies(st, w, utcDay)}), limit)

\* get_learning_words: date('now') is the UTC date, which is the local date
\* or one of its neighbours
get_learning_words(limit) ==
    /\ \E utcDay \in {now.day - 1, now.day, now.day + 1} :
          /\ result' = SelectDue(stats, words, utcDay, limit)
          /\ last' = LastCall("select", 0, 0, TRUE, limit, utcDay)
    /\ sched' = NoEngineCall
    /\ UNCHANGED <<words, stats, history, now, faults, weighting, beside>>

\* time passes between calls
Tick ==
    /\ NextInstant(now).day <= MaxDay
    /\ now' = NextInstant(now)
    /\ last' = LastCall("tick", 0, 0, TRUE, 0, now'.day)
    /\ result' = <<>>
    /\ sched' = NoEngineCall
    /\ UNCHANGED <<words, stats, history, faults, weighting, beside>>

(* ------------------------ PersonalizationEngine ------------------------ *)
\* A weight is kept as the exact fraction num/den of the float the code
\* computes; the float operations are monotone, so order carries over.
\* a weight whose wrong rate is not doubled
WordWeightNoDoubling(total_attempts, wrong_count) ==
    IF total_attempts = 0 THEN [num |-> 3, den |-> 2]
    ELSE [num |-> total_attempts + wrong_count, den |-> total_attempts]

\* 1.5 if total_attempts == 0 else 1.0 + (wrong_count / total_attempts) * 2.0
WordWeight(total_attempts, wrong_count) ==
    IF total_attempts = 0 THEN [num |-> 3, den |-> 2]
    ELSE [num |-> total_attempts + 2 * wrong_count, den |-> total_attempts]

\* calculate_weights: the dict word_id -> weight (a later word with the same
\* id overwrites an earlier one)
calculate_weights(ws) ==
    [id \in {ws[i].word_id : i \in DOMAIN ws} |->
        LET i == CHOOSE k \in DOMAIN ws :
                    /\ ws[k].word_id = id
                    /\ \A j \in DOMAIN ws : j > k => ws[j].word_id # id
        IN  WordWeight(ws[i].total_attempts, ws[i].wrong_count)]

\* the guard of the early return, off by one
ReturnsAllStrict(ws, count) == count > Len(ws)

\* if count >= len(words): return words
ReturnsAll(ws, count) == count >= Len(ws)

\* random.choices raises ValueError when the weights do not add up to more
\* than zero
ChoicesRaises(weight_list) ==
    \A i \in DOMAIN weight_list : weight_list[i].num <= 0

\* random.choices(words, weights=weight_list, k=count): every draw with
\* replacement among the words of positive weight
RandomChoices(ws, weight_list, k) ==
    {[n \in 1..k |-> ws[p[n]]] :
        p \in [1..k -> {i \in DOMAIN ws : weight_list[i].num > 0}]}

\* a fallback that draws with replacement
RandomSampleWithReplacement(ws, k) ==
    {[n \in 1..k |-> ws[p[n]]] : p \in [1..k -> DOMAIN ws]}

\* random.sample(words, count): k positions drawn without replacement
RandomSample(ws, k) ==
    {[n \in 1..k |-> ws[p[n]]] :
        p \in {q \in [1..k -> DOMAIN ws] :
                  \A a, b \in 1..k : a # b => q[a] # q[b]}}

\* the selection returned as drawn
KeepAll(selected, seen) == selected

\* the loop over selected_words: keep the first occurrence of each word_id
RECURSIVE Unique(_, _)
Unique(selected, seen) ==
    IF selected = <<>> THEN <<>>
    ELSE LET word == Head(selected)
         IN  IF word.word_id \in seen THEN Unique(Tail(selected), seen)
             ELSE <<word>> \o Unique(Tail(selected),
                                      seen \cup {word.word_id})

\* whether get_weighted_words gets as far as its try block
EntersTry(ws, count) == ws # <<>> /\ ~ReturnsAll(ws, count)

\* get_weighted_words: the lists it can return; raised says that the
\* weighted draw raised an exception
WeightedSelection(ws, count, raised) ==
    IF ws = <<>> THEN {<<>>}
    ELSE IF ReturnsAll(ws, count) THEN {ws}
    ELSE LET weights == calculate_weights(ws)
             weight_list == [i \in DOMAIN ws |-> weights[ws[i].word_id]]
         IN  IF raised \/ ChoicesRaises(weight_list)
             THEN RandomSample(ws, count)
             ELSE {Unique(selected_words, {}) :
                      selected_words \in RandomChoices(ws, weight_list, count)}

Weighting(ws, op, calls, count, raised, weights, ret) ==
    [words |-> ws, op |-> op, calls |-> calls, count |-> count,
     raised |-> raised, weights |-> weights, ret |-> ret]

NoWeighting == Weighting(<<>>, "none", 0, 0, FALSE, <<>>, <<>>)

\* a call of calculate_weights on the list at hand
CalculateWeights ==
    /\ weighting.calls < MaxCalls
    /\ weighting' = Weighting(weighting.words, "calculate_weights",
                              weighting.calls + 1, 0, FALSE,
                              calculate_weights(weighting.words), <<>>)
    /\ UNCHANGED <<words, stats, history, now, faults, result, last, sched,
                   beside>>

\* one call of get_weighted_words on the list at hand
get_weighted_words(count) ==
    /\ weighting.op = "none"
    /\ \E raised \in IF EntersTry(weighting.words, count) THEN BOOLEAN
                      ELSE {FALSE} :
          \E ret \in WeightedSelection(weighting.words, count, raised) :
             weighting' = Weighting(weighting.words, "get_weighted_words", 1,
                                    count, raised, <<>>, ret)
    /\ UNCHANGED <<words, stats, history, now, faults, result, last, sched,
                   beside>>

\* the methods DatabaseConnection has
HandleMethods ==
    {"is_connected", "connect", "close", "execute_query", "execute_non_query",
     "initialize_database", "check_database_integrity"}

\* the simplified variant's arithmetic: +0.1 up to 2.5 and the interval
\* times the new ease factor, or -0.2 down to 1.3 and half the interval
SimplifiedParams(ease_factor, interval_days, is_correct) ==
    IF is_correct
    THEN LET ef == IF ease_factor + 10 < 250 THEN ease_factor + 10 ELSE 250
         IN  [ease_factor |-> ef,
              interval_days |-> (interval_days * ef) \div 100]
    ELSE [ease_factor |-> IF ease_factor - 20 > 130 THEN ease_factor - 20
                          ELSE 130,
          interval_days |-> IF interval_days \div 2 > 1
                            THEN interval_days \div 2 ELSE 1]

\* update_ease_factor: read the row (2.5 and 1 without one), compute, and
\* write through self.db.execute_update; a handle without that method
\* raises AttributeError, which the except branch logs
update_ease_factor(word_id, is_correct) ==
    /\ word_id \in words
    /\ LET found == word_id \in DOMAIN stats
           ease_factor == IF found THEN stats[word_id].ease_factor ELSE 250
           interval_days == IF found THEN stats[word_id].interval_days ELSE 1
           new == SimplifiedParams(ease_factor, interval_days, is_correct)
           written == found /\ "execute_update" \in HandleMethods
       IN  /\ stats' = IF written
                        THEN [stats EXCEPT
                                 ![word_id].ease_factor = new.ease_factor,
                                 ![word_id].interval_days = new.interval_days]
                        ELSE stats
           /\ sched' = [done |-> TRUE, old_ef |-> ease_factor,
                        interval |-> interval_days,
                        quality |-> IF is_correct THEN 1 ELSE 0,
                        new_ef |-> new.ease_factor,
                        next_interval |-> new.interval_days]
           /\ last' = LastCall("update_ease_factor", word_id,
                               IF is_correct THEN 1 ELSE 0,
                               "execute_update" \in HandleMethods, 0, now.day)
    /\ result' = <<>>
    /\ UNCHANGED <<words, history, now, faults, weighting, beside>>

(* ------------- update_word_after_learning, one statement a step -------- *)
\* Every execute_query / execute_non_query is a step of its own (each
\* statement is committed when it runs), so the statements of two calls on
\* one database can alternate.  table holds the rows of word_statistics in
\* insertion order; review[p] is the call that caller p has in flight.
Procs == 1..MaxProcs

RowsOf(tb, word_id) == {i \in DOMAIN tb : tb[i].word_id = word_id}

\* stats[0] of a SELECT ... WHERE word_id = ?
FirstRowOf(tb, word_id) ==
    tb[CHOOSE i \in RowsOf(tb, word_id) : \A j \in RowsOf(tb, word_id) : i <= j]

\* an INSERT that no key constraint stands in the way of
InsertRowUnchecked(tb, word_id, row) ==
    [raised |-> FALSE, table |-> Append(tb, [word_id |-> word_id, row |-> row])]

\* INSERT INTO word_statistics: raises when the word has a row already
InsertRow(tb, word_id, row) ==
    IF StatisticsKeyUnique /\ RowsOf(tb, word_id) # {}
    THEN [raised |-> TRUE, table |-> tb]
    ELSE [raised |-> FALSE,
          table |-> Append(tb, [word_id |-> word_id, row |-> row])]

\* UPDATE word_statistics SET total_attempts = total_attempts + 1, ...
\* WHERE word_id = ?
UpdateCountersWhere(tb, word_id, is_correct) ==
    [i \in DOMAIN tb |->
        IF tb[i].word_id = word_id
        THEN [tb[i] EXCEPT !.row = UpdateCounters(@, is_correct)]
        ELSE tb[i]]

\* UPDATE word_statistics SET ease_factor = ?, ... WHERE word_id = ?
UpdateScheduleWhere(tb, word_id, new_ef, next_interval, next_study_date, current_date) ==
    [i \in DOMAIN tb |->
        IF tb[i].word_id = word_id
        THEN [tb[i] EXCEPT !.row = UpdateSchedule(@, new_ef, next_interval,
                                                  next_study_date,
                                                  current_date)]
        ELSE tb[i]]

\* what a word's statistics are when a call begins: the row, or the
\* defaults of a word without one
Stored(tb, word_id) ==
    IF RowsOf(tb, word_id) = {}
    THEN [total_attempts |-> 0, ease_factor |-> SM2_INITIAL_EASE_FACTOR,
          interval_days |-> 0]
    ELSE LET row == FirstRowOf(tb, word_id).row
         IN  [total_attempts |-> row.total_attempts,
              ease_factor |-> row.ease_factor,
              interval_days |-> row.interval_days]

Call(pc, word_id, quality, stats_check, old_ef, interval, base, ret) ==
    [pc |-> pc, word_id |-> word_id, quality |-> quality,
     stats_check |-> stats_check, old_ef |-> old_ef, interval |-> interval,
     base |-> base, ret |-> ret]

NoCall == Call("idle", 0, 0, FALSE, SM2_INITIAL_EASE_FACTOR, 0,
               Stored(<<>>, 0), FALSE)

\* the except branch: the call returns False
Failed(c) == [c EXCEPT !.pc = "returned", !.ret = FALSE]

\* the storage fault a statement can hit
Faulty == faults < MaxFaults /\ faults' = faults + 1

Sound == faults' = faults

\* add_word with its statistics row, as seen from the table
add_word_row(failStats) ==
    /\ Cardinality(words) < MaxWords
    /\ IF failStats THEN Faulty ELSE Sound
    /\ LET word_id == Cardinality(words) + 1
       IN  /\ words' = words \cup {word_id}
           /\ table' = IF failStats THEN table
                        ELSE InsertRow(table, word_id, InitialRow).table
    /\ UNCHANGED <<stats, history, now, result, last, sched, weighting,
                   review, session, view, submissions, aside>>

\* caller p enters update_word_after_learning(word_id, quality)
BeginReview(p, word_id, quality) ==
    /\ review[p].pc = "idle"
    /\ word_id \in words
    /\ review' = [review EXCEPT ![p] =
                      Call("history", word_id, quality, FALSE,
                           SM2_INITIAL_EASE_FACTOR, 0,
                           Stored(table, word_id), FALSE)]
    /\ UNCHANGED <<words, stats, history, now, faults, result, last, sched,
                   weighting, table, session, view, submissions, aside>>

\* INSERT INTO learning_history
InsertHistory(p) ==
    /\ review[p].pc = "history"
    /\ \/ /\ Sound
          /\ history' = Append(history,
                 HistoryEntry(review[p].word_id, FormatDateTime(now),
                              IF review[p].quality >= 3 THEN 1 ELSE 0))
          /\ review' = [review EXCEPT ![p].pc = "check"]
       \/ /\ Faulty
          /\ history' = history
          /\ review' = [review EXCEPT ![p] = Failed(@)]
    /\ UNCHANGED <<words, stats, now, result, last, sched, weighting, table,
                   session, view, submissions, aside>>

\* SELECT word_id FROM word_statistics WHERE word_id = ?
CheckRow(p) ==
    /\ review[p].pc = "check"
    /\ \/ /\ Sound
          /\ review' = [review EXCEPT
                 ![p].pc = "count",
                 ![p].stats_check = RowsOf(table, review[p].word_id) # {}]
       \/ /\ Faulty
          /\ review' = [review EXCEPT ![p].pc = "count",
                                      ![p].stats_check = FALSE]
    /\ UNCHANGED <<words, stats, history, now, result, last, sched,
                   weighting, table, session, view, submissions, aside>>

\* the lazy INSERT of the row, or the UPDATE of the counters
CountReview(p) ==
    LET c == review[p]
        is_correct == IF c.quality >= 3 THEN 1 ELSE 0
        ins == InsertRow(table, c.word_id, FirstReviewRow(is_correct))
    IN  /\ c.pc = "count"
        /\ \/ /\ Sound
              /\ c.stats_check
              /\ table' = UpdateCountersWhere(table, c.word_id, is_correct)
              /\ review' = [review EXCEPT ![p].pc = "read"]
           \/ /\ Sound
              /\ ~c.stats_check
              /\ table' = ins.table
              /\ review' = [review EXCEPT
                     ![p] = IF ins.raised THEN Failed(@)
                            ELSE [@ EXCEPT !.pc = "read"]]
           \/ /\ Faulty
              /\ table' = table
              /\ review' = [review EXCEPT ![p] = Failed(@)]
        /\ UNCHANGED <<words, stats, history, now, result, last, sched,
                       weighting, session, view, submissions, aside>>

\* SELECT ease_factor, interval_days FROM word_statistics WHERE word_id = ?
ReadSchedule(p) ==
    LET c == review[p]
        found == RowsOf(table, c.word_id) # {}
    IN  /\ c.pc = "read"
        /\ \/ /\ Sound
              /\ review' = [review EXCEPT
                     ![p].pc = "write",
                     ![p].old_ef =
                         IF found THEN FirstRowOf(table, c.word_id).row.ease_factor
                         ELSE SM2_INITIAL_EASE_FACTOR,
                     ![p].interval =
                         IF found THEN FirstRowOf(table, c.word_id).row.interval_days
                         ELSE 0]
           \/ /\ Faulty
              /\ review' = [review EXCEPT
                     ![p].pc = "write",
                     ![p].old_ef = SM2_INITIAL_EASE_FACTOR,
                     ![p].interval = 0]
        /\ UNCHANGED <<words, stats, history, now, result, last, sched,
                       weighting, table, session, view, submissions, aside>>

\* the engine call and the UPDATE of the schedule; the call returns True
WriteSchedule(p) ==
    LET c == review[p]
    IN  /\ c.pc = "write"
        /\ \/ /\ Sound
              /\ \E tie \in 0..1 :
                    LET r == _calculate_sm2_params(c.old_ef, c.interval,
                                                   c.quality, tie)
                    IN  table' = UpdateScheduleWhere(table, c.word_id,
                            r.new_ef, r.next_interval,
                            FormatMidnight(AddDays(now, r.next_interval)),
                            FormatDateTime(now))
              /\ review' = [review EXCEPT ![p].pc = "returned",
                                          ![p].ret = TRUE]
           \/ /\ Faulty
              /\ table' = table
              /\ review' = [review EXCEPT ![p] = Failed(@)]
        /\ UNCHANGED <<words, stats, history, now, result, last, sched,
                       weighting, session, view, submissions, aside>>

(* ----------------- LearningController and FlashcardView ---------------- *)
\* get_current_word: the word at the index, or None (0)
get_current_word(s) ==
    IF (~s.session_started)
       \/ ~(0 <= s.current_word_index /\ s.current_word_index < s.session_length)
    THEN 0
    ELSE s.current_session_words[s.current_word_index + 1]

is_session_finished(s) ==
    s.session_started /\ s.current_word_index >= s.session_length

\* an index that moves on only when the update succeeded
AdvanceOnSuccess(index, success) == IF success THEN index + 1 ELSE index

\* self.current_word_index += 1, whatever the update returned
Advance(index, success) == index + 1

\* the controller after the update of process_review_result returned
AfterReview(s, success) ==
    LET moved == [s EXCEPT !.current_word_index = Advance(@, success)]
    IN  IF is_session_finished(moved) THEN NoSession ELSE moved

\* FlashcardView.load_new_word: the completion message when the controller
\* reports the session finished; otherwise the current word becomes the card,
\* and when there is none an error is logged and the completion message shown
load_new_word(v, s) ==
    IF is_session_finished(s)
    THEN [v EXCEPT !.shows = "completion"]
    ELSE IF get_current_word(s) # 0
    THEN [current_word_data |-> get_current_word(s), shows |-> "card"]
    ELSE [current_word_data |-> 0, shows |-> "load_error"]

\* FlashcardView.start_learning: start_learning_session, then load_new_word.
\* The start button is on the settings screen, which is shown only while no
\* session runs.  limit is the daily_word_goal setting.
start_learning(limit) ==
    /\ ~session.session_started
    /\ Len(history) < MaxReviews
    /\ \E utcDay \in {now.day - 1, now.day, now.day + 1} :
          LET ws == SelectDue(stats, words, utcDay, limit)
              started == [session_started |-> TRUE,
                          current_session_words |-> ws,
                          current_word_index |-> 0,
                          session_length |-> Len(ws)]
          IN  /\ ws # <<>>
              /\ session' = started
              /\ view' = load_new_word(view, started)
              /\ submissions' = [selected |-> ws, calls |-> <<>>]
              /\ result' = ws
              /\ last' = LastCall("start_learning", 0, 0, TRUE, limit, utcDay)
    /\ sched' = NoEngineCall
    /\ UNCHANGED <<words, stats, history, now, faults, weighting, table,
                   review, aside>>

\* FlashcardView.submit_evaluation: process_review_result (the update, the
\* index, the end of the session), then load_new_word when it succeeded
submit_evaluation(quality) ==
    /\ view.current_word_data # 0
    /\ Len(submissions.calls) < MaxSubmits
    /\ Len(history) < MaxReviews
    /\ LET word_id == get_current_word(session)
       IN  \E failAt \in 0..3, qf1 \in BOOLEAN, qf2 \in BOOLEAN,
              t2 \in LaterReads(now), tie \in 0..1 :
              LET nfaults == (IF failAt > 0 THEN 1 ELSE 0)
                             + (IF qf1 THEN 1 ELSE 0) + (IF qf2 THEN 1 ELSE 0)
                  o == ReviewOutcome(stats, history, word_id, quality,
                                     failAt, qf1, qf2, now, t2, tie)
                  success == word_id # 0 /\ o.ret
                  after == IF word_id = 0 THEN session
                           ELSE AfterReview(session, o.ret)
              IN  /\ faults + nfaults <= MaxFaults
                  /\ word_id = 0 => (nfaults = 0 /\ t2 = now /\ tie = 0)
                  /\ faults' = faults + nfaults
                  /\ stats' = IF word_id = 0 THEN stats ELSE o.stats
                  /\ history' = IF word_id = 0 THEN history ELSE o.history
                  /\ sched' = IF word_id # 0 /\ o.called THEN o.call
                              ELSE NoEngineCall
                  /\ now' = IF word_id # 0 /\ (failAt = 3 \/ o.ret) THEN t2
                            ELSE now
                  /\ session' = after
                  /\ view' = IF success THEN load_new_word(view, after)
                             ELSE view
                  /\ submissions' = [submissions EXCEPT !.calls =
                         Append(@, [shown |-> view.current_word_data,
                                    word_id |-> word_id,
                                    quality |-> quality,
                                    success |-> success])]
                  /\ last' = LastCall("submit_evaluation", word_id, quality,
                                      success, 0, now'.day)
    /\ result' = <<>>
    /\ UNCHANGED <<words, weighting, table, review, aside>>

(* ------------------------ WordModel, with texts ------------------------ *)
\* the learning side, which the catalog and the wrong note leave alone
apart == <<table, review, session, view, submissions>>

\* texts are sequences of characters, " " being the whitespace
Chars == {" ", "a"}
Texts == UNION {[1..n -> Chars] : n \in 1..MaxText}

RECURSIVE LStrip(_)
LStrip(t) == IF t # <<>> /\ Head(t) = " " THEN LStrip(Tail(t)) ELSE t

RECURSIVE RStrip(_)
RStrip(t) ==
    IF t # <<>> /\ t[Len(t)] = " " THEN RStrip(SubSeq(t, 1, Len(t) - 1)) ELSE t

\* str.strip()
Strip(t) == RStrip(LStrip(t))

\* _validate_word, for the english text (MaxText is below the 100 characters)
ValidWord(english) == english # <<>> /\ Strip(english) # <<>>

\* self.exists('english = ?', (english,)): the text as given is compared
\* with the stored column; a query error is swallowed and reads as no row
Exists(cat, english, queryFails) ==
    (~queryFails) /\ \E w \in DOMAIN cat : cat[w] = english

\* WordModel.add_word with its english text: validation, the duplicate
\* check, the insert of the stripped text, the statistics row.  ret FALSE in
\* last stands for the ValueError.
add_word_english(english, queryFails, failStats) ==
    /\ Cardinality(words) < MaxWords
    /\ faults + (IF queryFails THEN 1 ELSE 0) + (IF failStats THEN 1 ELSE 0)
          <= MaxFaults
    /\ queryFails => ValidWord(english)
    /\ LET raises == (~ValidWord(english))
                     \/ Exists(catalog, english, queryFails)
           word_id == Cardinality(words) + 1
       IN  /\ failStats => ~raises
           /\ faults' = faults + (IF queryFails THEN 1 ELSE 0)
                               + (IF failStats THEN 1 ELSE 0)
           /\ words' = IF raises THEN words ELSE words \cup {word_id}
           /\ catalog' = IF raises THEN catalog
                         ELSE Append(catalog, Strip(english))
           /\ stats' = IF raises THEN stats
                       ELSE _initialize_word_statistics(stats, word_id,
                                                        failStats)
           /\ last' = LastCall("add_word", IF raises THEN 0 ELSE word_id, 0,
                               ~raises, 0, now.day)
           /\ result' = IF raises THEN <<>> ELSE english
    /\ sched' = NoEngineCall
    /\ UNCHANGED <<history, now, weighting, apart, exam_details, wrong_note,
                   added_count>>

(* ------------------------ ExamModel, WrongNoteModel -------------------- *)
\* ascending order of a set of word ids, the order in which the rows of
\* SELECT DISTINCT word_id are taken
RECURSIVE Ascending(_)
Ascending(S) ==
    IF S = {} THEN <<>>
    ELSE LET m == CHOOSE x \in S : \A y \in S : x <= y
         IN  <<m>> \o Ascending(S \ {m})

\* ExamModel.save_exam_result: the exam_details rows of one exam, of which
\* only those with is_correct = 0 are read later
save_exam_result(wrong) ==
    /\ Len(exam_details) < MaxExams
    /\ wrong \subseteq words
    /\ exam_details' = Append(exam_details, wrong)
    /\ last' = LastCall("save_exam_result", 0, 0, TRUE, 0, now.day)
    /\ result' = <<>>
    /\ sched' = NoEngineCall
    /\ UNCHANGED <<words, stats, history, now, faults, weighting, apart,
                   catalog, wrong_note, added_count>>

\* the note_id of the first wrong_note row of the word, 0 when it has none
NoteIdOf(rows, word_id) ==
    IF \E i \in 1..Len(rows) : rows[i] = word_id
    THEN CHOOSE i \in 1..Len(rows) :
             rows[i] = word_id /\ \A j \in 1..(i - 1) : rows[j] # word_id
    ELSE 0

\* add_wrong_word: the note_id of the row the word has already, else the
\* note_id of the row inserted; the insert raises when insertFails
add_wrong_word(rows, word_id, insertFails) ==
    IF NoteIdOf(rows, word_id) > 0
    THEN [rows |-> rows, note_id |-> NoteIdOf(rows, word_id), raised |-> FALSE]
    ELSE IF insertFails
    THEN [rows |-> rows, note_id |-> 0, raised |-> TRUE]
    ELSE [rows |-> Append(rows, word_id), note_id |-> Len(rows) + 1,
          raised |-> FALSE]

\* the loop of auto_add_from_exam from the i-th wrong word on; failAt is the
\* position of the word whose insert raises (0: none), and the except
\* branch returns 0
RECURSIVE AddEach(_, _, _, _, _)
AddEach(rows, wrong_words, i, added, failAt) ==
    IF i > Len(wrong_words) THEN [rows |-> rows, ret |-> added]
    ELSE LET a == add_wrong_word(rows, wrong_words[i], failAt = i)
         IN  IF a.raised THEN [rows |-> a.rows, ret |-> 0]
             ELSE AddEach(a.rows, wrong_words, i + 1,
                          IF a.note_id > 0 THEN added + 1 ELSE added, failAt)

\* WrongNoteModel.auto_add_from_exam; a query error is swallowed and reads
\* as no wrong words
auto_add_from_exam(exam_id, queryFails, failAt) ==
    /\ exam_id \in 1..Len(exam_details)
    /\ LET wrong_words == IF queryFails THEN <<>>
                          ELSE Ascending(exam_details[exam_id])
           nfaults == (IF queryFails THEN 1 ELSE 0)
                      + (IF failAt > 0 THEN 1 ELSE 0)
           o == AddEach(wrong_note, wrong_words, 1, 0, failAt)
       IN  /\ faults + nfaults <= MaxFaults
           /\ failAt > 0 =>
                 /\ failAt <= Len(wrong_words)
                 /\ NoteIdOf(wrong_note, wrong_words[failAt]) = 0
           /\ faults' = faults + nfaults
           /\ wrong_note' = o.rows
           /\ added_count' = o.ret
           /\ result' = wrong_words
    /\ last' = LastCall("auto_add_from_exam", 0, 0, TRUE, exam_id, now.day)
    /\ sched' = NoEngineCall
    /\ UNCHANGED <<words, stats, history, now, weighting, apart, catalog,
                   exam_details>>

(* --------------------------- specifications ---------------------------- *)
Init ==
    /\ words = {}
    /\ stats = <<>>
    /\ history = <<>>
    /\ now = [day |-> 1, sec |-> 0]
    /\ faults = 0
    /\ result = <<>>
    /\ last = LastCall("init", 0, 0, TRUE, 0, 1)
    /\ sched = NoEngineCall
    /\ weighting = NoWeighting
    /\ BesideIdle

Next ==
    \/ \E failStats \in BOOLEAN : add_word(failStats)
    \/ \E w \in 1..MaxWords, q \in Qualities : update_word_after_learning(w, q)
    \/ \E limit \in 1..(MaxWords + 1) : get_learning_words(limit)
    \/ Tick

Spec == Init /\ [][Next]_vars

\* reviews whose quality is any int the caller passes
NextAnyQuality ==
    \/ \E failStats \in BOOLEAN : add_word(failStats)
    \/ \E w \in 1..MaxWords, q \in QualityInputs :
          update_word_after_learning(w, q)

SpecAnyQuality == Init /\ [][NextAnyQuality]_vars

\* the scheduling engine on its own, over its whole documented domain
InitEngine ==
    /\ words = {}
    /\ stats = <<>>
    /\ history = <<>>
    /\ now = [day |-> 1, sec |-> 0]
    /\ faults = 0
    /\ result = <<>>
    /\ last = LastCall("init", 0, 0, TRUE, 0, 1)
    /\ weighting = NoWeighting
    /\ BesideIdle
    /\ \E ef \in SM2_MIN_EASE_FACTOR..MaxEf, i \in 0..MaxInterval,
          q \in Qualities : sched = EngineArgs(ef, i, q)

Compute ==
    /\ ~sched.done
    /\ \E tie \in 0..1 :
          sched' = EngineCall(sched.old_ef, sched.interval, sched.quality, tie)
    /\ UNCHANGED <<words, stats, history, now, faults, result, last,
                   weighting, beside>>

NextEngine == Compute

SpecEngine == InitEngine /\ [][NextEngine]_vars

\* the word lists handed to the PersonalizationEngine are query rows: the
\* word_ids are distinct and 0 <= wrong_count <= total_attempts
WordRow(word_id, total_attempts, wrong_count) ==
    [word_id |-> word_id, total_attempts |-> total_attempts,
     wrong_count |-> wrong_count]

Counts(most) == {c \in (0..most) \X (0..most) : c[2] <= c[1]}

\* lists of n rows whose first row ranges over Counts(first) and whose other
\* rows range over Counts(rest)
WordLists(n, first, rest) ==
    {[i \in 1..n |-> IF i = 1 THEN WordRow(i, a[1], a[2])
                     ELSE WordRow(i, f[i][1], f[i][2])] :
        a \in Counts(first), f \in [2..n -> Counts(rest)]}

NoLearning ==
    /\ words = {}
    /\ stats = <<>>
    /\ history = <<>>
    /\ now = [day |-> 1, sec |-> 0]
    /\ faults = 0
    /\ result = <<>>
    /\ last = LastCall("init", 0, 0, TRUE, 0, 1)
    /\ sched = NoEngineCall

\* calculate_weights on its own: one row over the whole range of attempts
InitWeights ==
    /\ NoLearning
    /\ BesideIdle
    /\ \E n \in 1..MaxPool :
          \E ws \in WordLists(n, MaxAttempts, MaxPoolAttempts) :
             weighting = Weighting(ws, "none", 0, 0, FALSE, <<>>, <<>>)

NextWeights == CalculateWeights

SpecWeights == InitWeights /\ [][NextWeights]_vars

\* get_weighted_words on its own, for every count from 0 to past the list
InitSelect ==
    /\ NoLearning
    /\ BesideIdle
    /\ \E n \in 0..MaxPool :
          \E ws \in WordLists(n, MaxPoolAttempts, MaxPoolAttempts) :
             weighting = Weighting(ws, "none", 0, 0, FALSE, <<>>, <<>>)

NextSelect == \E count \in 0..(MaxPool + 1) : get_weighted_words(count)

SpecSelect == InitSelect /\ [][NextSelect]_vars

\* reviews through LearningModel and through the simplified variant
NextSimplified ==
    \/ \E failStats \in BOOLEAN : add_word(failStats)
    \/ \E w \in 1..MaxWords, q \in Qualities : update_word_after_learning(w, q)
    \/ \E w \in 1..MaxWords, is_correct \in BOOLEAN :
          update_ease_factor(w, is_correct)

SpecSimplified == Init /\ [][NextSimplified]_vars

\* learning sessions run through the flashcard view
NextSession ==
    \/ \E failStats \in BOOLEAN : add_word(failStats)
    \/ \E limit \in 1..(MaxWords + 1) : start_learning(limit)
    \/ \E q \in Qualities : submit_evaluation(q)

SpecSession == Init /\ [][NextSession]_vars

\* the word catalog filled with texts
NextCatalog ==
    \/ \E english \in Texts, queryFails \in BOOLEAN, failStats \in BOOLEAN :
          add_word_english(english, queryFails, failStats)
    \/ Tick

SpecCatalog == Init /\ [][NextCatalog]_vars

\* exams and the wrong note
NextWrongNote ==
    \/ \E failStats \in BOOLEAN : add_word(failStats)
    \/ \E wrong \in SUBSET (1..MaxWords) : save_exam_result(wrong)
    \/ \E exam_id \in 1..MaxExams, queryFails \in BOOLEAN, failAt \in 0..MaxWords :
          auto_add_from_exam(exam_id, queryFails, failAt)

SpecWrongNote == Init /\ [][NextWrongNote]_vars

\* the calls of up to MaxProcs callers, statement by statement
InitStatements ==
    /\ NoLearning
    /\ weighting = NoWeighting
    /\ table = <<>>
    /\ review = [p \in Procs |-> NoCall]
    /\ session = NoSession
    /\ view = NoView
    /\ catalog = <<>>
    /\ exam_details = <<>>
    /\ wrong_note = <<>>
    /\ added_count = 0
    /\ submissions = NoSubmissions

NextStatements ==
    \/ \E failStats \in BOOLEAN : add_word_row(failStats)
    \/ \E p \in Procs, w \in 1..MaxWords, q \in Qualities :
          BeginReview(p, w, q)
    \/ \E p \in Procs : InsertHistory(p)
    \/ \E p \in Procs : CheckRow(p)
    \/ \E p \in Procs : CountReview(p)
    \/ \E p \in Procs : ReadSchedule(p)
    \/ \E p \in Procs : WriteSchedule(p)

SpecStatements == InitStatements /\ [][NextStatements]_vars

(* ------------------------------- claims -------------------------------- *)
HasRow(w) == w \in DOMAIN stats

\* C1: for every word with a statistics row, correct_count + wrong_count
\* equals total_attempts, whatever reviews (failed ones included) happened.
C1_CountersAddUp ==
    \A w \in DOMAIN stats :
        stats[w].correct_count + stats[w].wrong_count = stats[w].total_attempts

C1_Witness ==
    \E w \in DOMAIN stats :
        /\ stats[w].total_attempts = 2
        /\ stats[w].correct_count = 1
        /\ stats[w].wrong_count = 1

\* C2: a record_review that returns False leaves the history and every
\* statistics row as they were before the call.
C2_AllOrNothing ==
    [][(last'.op = "record_review" /\ ~last'.ret)
          => (history' = history /\ stats' = stats)]_vars

\* C3: for quality 0, 1, 2 the engine returns interval 0 and the old ease
\* factor, whatever the old interval.
C3_FailureResets ==
    (sched.done /\ sched.quality < 3)
        => (sched.next_interval = 0 /\ sched.new_ef = sched.old_ef)

C3_Witness ==
    /\ sched.done
    /\ sched.quality < 3
    /\ sched.interval >= 2
    /\ sched.old_ef > SM2_INITIAL_EASE_FACTOR
    /\ sched.next_interval = 0

\* C4: for quality 3, 4, 5 the new interval is 1 from 0, 6 from 1, and from
\* 2 on an integer nearest to old interval x new ease factor; (2.5, 6, 4)
\* gives 15.
C4_TieredInterval ==
    (sched.done /\ sched.quality >= 3) =>
        /\ sched.interval = 0 => sched.next_interval = 1
        /\ sched.interval = 1 => sched.next_interval = 6
        /\ sched.interval >= 2 =>
              /\ 100 * sched.next_interval - sched.interval * sched.new_ef <= 50
              /\ sched.interval * sched.new_ef - 100 * sched.next_interval <= 50
        /\ (sched.old_ef = 250 /\ sched.interval = 6 /\ sched.quality = 4)
              => sched.next_interval = 15

C4_Witness ==
    /\ sched.done
    /\ sched.quality = 3
    /\ sched.interval = 7
    /\ sched.old_ef = 250
    /\ sched.next_interval = 17

\* C5: for quality 3, 4, 5 the new ease factor is max(1.3, old + d) with
\* d(5) = +0.1, d(4) = 0, d(3) = -0.14, and nothing caps it at 2.5.
C5_Delta(q) == CASE q = 5 -> 10 [] q = 4 -> 0 [] q = 3 -> -14

C5_EaseFactorFormula ==
    (sched.done /\ sched.quality >= 3) =>
        sched.new_ef =
            (IF sched.old_ef + C5_Delta(sched.quality) < 130 THEN 130
             ELSE sched.old_ef + C5_Delta(sched.quality))

C5_Witness ==
    /\ sched.done
    /\ sched.quality = 5
    /\ sched.old_ef = 250
    /\ sched.new_ef = 260

\* C6: for quality 3, 4, 5 the engine returns an ease factor of at least 1.3
\* and an interval of at least one day.
C6_FloorsHold ==
    (sched.done /\ sched.quality >= 3)
        => (sched.new_ef >= 130 /\ sched.next_interval >= 1)

C6_Witness ==
    /\ sched.done
    /\ sched.quality = 3
    /\ sched.old_ef = 135
    /\ sched.new_ef = 130
    /\ sched.interval = 0
    /\ sched.next_interval = 1

\* C7 as stated: every stored ease factor lies in [1.3, 2.5].
C7_EaseWithinBounds ==
    \A w \in DOMAIN stats :
        stats[w].ease_factor >= 130 /\ stats[w].ease_factor <= 250

\* C7 as amended: every stored ease factor is at least 1.3 and at most
\* 2.5 + 0.1 x correct_count, and is 2.5 while the word has no attempt.
C7_EaseFloorAndGrowth ==
    \A w \in DOMAIN stats :
        /\ stats[w].ease_factor >= 130
        /\ stats[w].ease_factor <= 250 + 10 * stats[w].correct_count
        /\ stats[w].total_attempts = 0 => stats[w].ease_factor = 250

C7_Witness ==
    \E w \in DOMAIN stats :
        /\ stats[w].ease_factor = 270
        /\ stats[w].correct_count = 2

Fresh(w) == (~HasRow(w)) \/ stats[w].total_attempts = 0

ReviewedFresh(w) ==
    /\ Fresh(w)
    /\ last'.op = "record_review"
    /\ last'.word_id = w
    /\ last'.quality = 5
    /\ last'.ret

C9_DueSelection ==
    (last.op = "select" /\ last.limit >= Cardinality(words)) =>
        Range(result) =
            {w \in words :
                \/ ~HasRow(w)
                \/ stats[w].total_attempts = 0
                \/ stats[w].next_study_date = NULL
                \/ stats[w].next_study_date[1] <= last.today}

\* C10: a word whose review with quality < 3 just succeeded is in the
\* selection made right after it on the same day.
C10_FailedWordEligibleAgain ==
    [][(/\ last.op = "record_review"
        /\ last.ret
        /\ last.quality < 3
        /\ last'.op = "select"
        /\ last'.limit >= Cardinality(words)
        /\ last'.today = now.day)
          => last.word_id \in Range(result')]_vars

\* the due date of a selected word as a day number (every stored
\* next_study_date is a midnight), and whether it has none
C11_Undated(w) == (~HasRow(w)) \/ stats[w].next_study_date = NULL

C11_DueDay(w) == stats[w].next_study_date[1]

C11_Precedes(a, b) ==
    \/ C11_Undated(a) /\ ~C11_Undated(b)
    \/ C11_Undated(a) /\ C11_Undated(b) /\ a < b
    \/ /\ ~C11_Undated(a)
       /\ ~C11_Undated(b)
       /\ \/ C11_DueDay(a) < C11_DueDay(b)
          \/ C11_DueDay(a) = C11_DueDay(b) /\ a < b

\* C11: the selection is ordered by next_study_date ascending, words with
\* no next_study_date first, and words with equal dates by word_id
\* ascending; an earlier due date always precedes a later one.
C11_DueOrdering ==
    last.op = "select" =>
        \A i, j \in 1..Len(result) :
            i < j => C11_Precedes(result[i], result[j])

\* two dated words come back with the higher word_id first because its due
\* date is the earlier one
C11_Witness ==
    /\ last.op = "select"
    /\ Len(result) = 2
    /\ result[1] > result[2]
    /\ ~C11_Undated(result[1])
    /\ ~C11_Undated(result[2])
    /\ C11_DueDay(result[1]) < C11_DueDay(result[2])

\* the words the query's WHERE clause lets through
C12_Qualifying == {w \in words : Qualifies(stats, w, last.today)}

C13_OutOfRangeRejected ==
    [][(last'.op = "record_review" /\ last'.quality \notin Qualities)
          => (~last'.ret /\ history' = history /\ stats' = stats)]_vars

\* C14: a review during which a storage read or write failed returns False.
C14_TrueOnlyIfReadAndWritten ==
    [][(last'.op = "record_review" /\ faults' > faults) => ~last'.ret]_vars

\* the weights of the last calculate_weights call are right, word by word
C15_WeightsRight ==
    weighting.op = "calculate_weights" =>
        /\ DOMAIN weighting.weights =
              {weighting.words[i].word_id : i \in DOMAIN weighting.words}
        /\ \A i \in DOMAIN weighting.words :
              LET total == weighting.words[i].total_attempts
                  wrong == weighting.words[i].wrong_count
                  x == weighting.weights[weighting.words[i].word_id]
              IN  /\ x.den > 0
                  /\ total = 0 => 2 * x.num = 3 * x.den
                  /\ total > 0 => x.num * total = x.den * (total + 2 * wrong)
                  /\ (0 <= wrong /\ wrong <= total) =>
                        (x.den <= x.num /\ x.num <= 3 * x.den)
                  /\ (total = 10 /\ wrong = 0) => x.num = x.den
                  /\ (total = 10 /\ wrong = 5) => x.num = 2 * x.den
                  /\ (total = 10 /\ wrong = 10) => x.num = 3 * x.den

\* C15: calculate_weights gives every word the weight 1.5 when it has no
\* attempt and 1.0 + (wrong_count / total_attempts) x 2.0 otherwise, which
\* lies in [1.0, 3.0] (10 attempts with 0, 5, 10 wrong: 1.0, 2.0, 3.0), and
\* a further call on the same list gives the same weights.
C15_WeightsFormula ==
    [][/\ C15_WeightsRight'
       /\ (weighting.op = "calculate_weights"
            /\ weighting'.op = "calculate_weights"
            /\ weighting'.words = weighting.words)
              => weighting'.weights = weighting.weights]_vars

\* a second call has weighed a word with 5 of 10 attempts wrong as 2.0 next
\* to a word without attempts
C15_Witness ==
    /\ weighting.op = "calculate_weights"
    /\ weighting.calls = 2
    /\ Len(weighting.words) >= 2
    /\ weighting.words[1].total_attempts = 10
    /\ weighting.words[1].wrong_count = 5
    /\ weighting.weights[1].num = 2 * weighting.weights[1].den
    /\ weighting.words[2].total_attempts = 0

\* C16: with count >= len(words) get_weighted_words returns every word of
\* the list exactly once.
C16_ReturnsEveryWord ==
    (weighting.op = "get_weighted_words"
     /\ weighting.count >= Len(weighting.words)) =>
        /\ Len(weighting.ret) = Len(weighting.words)
        /\ \A i \in DOMAIN weighting.words :
              Cardinality({j \in DOMAIN weighting.ret :
                              weighting.ret[j] = weighting.words[i]}) = 1

\* a call whose count is exactly the length of a list of several words
C16_Witness ==
    /\ weighting.op = "get_weighted_words"
    /\ Len(weighting.words) >= 2
    /\ weighting.count = Len(weighting.words)
    /\ Len(weighting.ret) = Len(weighting.words)

\* C17: with 0 <= count < len(words) get_weighted_words returns at most
\* count words, all from the list, with pairwise distinct word_ids, and at
\* least one word when count >= 1.
C17_AtMostCountDistinct ==
    (weighting.op = "get_weighted_words"
     /\ 0 <= weighting.count
     /\ weighting.count < Len(weighting.words)) =>
        /\ Len(weighting.ret) <= weighting.count
        /\ Range(weighting.ret) \subseteq Range(weighting.words)
        /\ \A i, j \in DOMAIN weighting.ret :
              i # j => weighting.ret[i].word_id # weighting.ret[j].word_id
        /\ weighting.count >= 1 => weighting.ret # <<>>

\* a weighted draw of two that hit the same word twice returns one word
C17_Witness ==
    /\ weighting.op = "get_weighted_words"
    /\ ~weighting.raised
    /\ weighting.count = 2
    /\ Len(weighting.words) > 2
    /\ Len(weighting.ret) = 1

\* C18: when the weighted draw raises, get_weighted_words returns exactly
\* count words of the list, no word twice.
C18_FallbackSample ==
    (weighting.op = "get_weighted_words" /\ weighting.raised) =>
        /\ Len(weighting.ret) = weighting.count
        /\ Range(weighting.ret) \subseteq Range(weighting.words)
        /\ Cardinality({weighting.ret[i].word_id :
                           i \in DOMAIN weighting.ret}) = weighting.count

\* the draw raised and the fallback returned two words
C18_Witness ==
    /\ weighting.op = "get_weighted_words"
    /\ weighting.raised
    /\ weighting.count = 2
    /\ Len(weighting.ret) = 2

\* the three counters of a word; a word without a row has none counted
C19_Counters(st, w) ==
    IF w \in DOMAIN st
    THEN <<st[w].total_attempts, st[w].correct_count, st[w].wrong_count>>
    ELSE <<0, 0, 0>>

\* C19: a successful review adds 1 to the word's total_attempts and 1 to
\* correct_count (quality >= 3) or to wrong_count (quality < 3), leaves the
\* other counter alone and changes no counter of any other word.
C19_CountersStepByOne ==
    [][(last'.op = "record_review" /\ last'.ret) =>
          LET w == last'.word_id
              is_correct == IF last'.quality >= 3 THEN 1 ELSE 0
              old == C19_Counters(stats, w)
          IN  /\ C19_Counters(stats', w) =
                    <<old[1] + 1, old[2] + is_correct,
                      old[3] + (1 - is_correct)>>
              /\ \A v \in (1..MaxWords) \ {w} :
                    /\ C19_Counters(stats', v) = C19_Counters(stats, v)
                    /\ (v \in DOMAIN stats') = (v \in DOMAIN stats)]_vars

\* a failed second review of a word next to a word never reviewed
C19_Witness ==
    /\ last.op = "record_review"
    /\ last.ret
    /\ last.quality < 3
    /\ C19_Counters(stats, last.word_id) = <<2, 1, 1>>
    /\ \E v \in words \ {last.word_id} :
          HasRow(v) /\ stats[v].total_attempts = 0

\* C20: every step keeps the history entries it found, and a successful
\* review appends exactly one entry for its word with is_correct 1 exactly
\* when quality >= 3 and study_type 'flashcard'.
C20_HistoryAppendOnly ==
    [][/\ Len(history') >= Len(history)
       /\ SubSeq(history', 1, Len(history)) = history
       /\ (last'.op = "record_review" /\ last'.ret) =>
             /\ Len(history') = Len(history) + 1
             /\ history'[Len(history')].word_id = last'.word_id
             /\ history'[Len(history')].is_correct =
                   (IF last'.quality >= 3 THEN 1 ELSE 0)
             /\ history'[Len(history')].study_type = "flashcard"]_vars

\* a passed review recorded after a failed one
C20_Witness ==
    /\ last.op = "record_review"
    /\ last.ret
    /\ last.quality >= 3
    /\ Len(history) = 2
    /\ history[1].is_correct = 0
    /\ history[2].is_correct = 1
    /\ history[2].word_id = last.word_id

\* C21: after a successful review the stored next_study_date is midnight of
\* the day of the review plus the stored interval_days, last_study_date is
\* the timestamp of the review, and ease_factor and interval_days are the
\* pair the engine returned.
C21_ScheduleWrittenBack ==
    [][(last'.op = "record_review" /\ last'.ret) =>
          LET row == stats'[last'.word_id]
          IN  /\ row.next_study_date = <<now.day + row.interval_days, 0>>
              /\ row.last_study_date = <<now.day, now.sec>>
              /\ sched'.done
              /\ row.ease_factor = sched'.new_ef
              /\ row.interval_days = sched'.next_interval]_vars

\* C22: a successful review feeds the engine the ease_factor and
\* interval_days stored for the word before the call (2.5 and 0 for a word
\* without a row).
C22_EngineFedStoredPair ==
    [][(last'.op = "record_review" /\ last'.ret) =>
          LET w == last'.word_id
          IN  /\ sched'.done
              /\ sched'.old_ef = IF HasRow(w) THEN stats[w].ease_factor
                                 ELSE SM2_INITIAL_EASE_FACTOR
              /\ sched'.interval = IF HasRow(w) THEN stats[w].interval_days
                                   ELSE 0]_vars

C24_Serial(base, q1, q2, tie1, tie2) ==
    LET first == _calculate_sm2_params(base.ease_factor, base.interval_days,
                                       q1, tie1)
        second == _calculate_sm2_params(first.new_ef, first.next_interval,
                                        q2, tie2)
    IN  <<second.new_ef, second.next_interval>>

\* C24: when two calls on one word that began from the same stored
\* statistics have both returned True (no storage fault anywhere), the
\* word's total_attempts has grown by 2 and its ease_factor and
\* interval_days are those of the two reviews applied in one of the two
\* orders.
C24_InterleavedAsSerial ==
    \A p, r \in DOMAIN review :
        (/\ p < r
         /\ faults = 0
         /\ review[p].pc = "returned" /\ review[p].ret
         /\ review[r].pc = "returned" /\ review[r].ret
         /\ review[p].word_id = review[r].word_id
         /\ review[p].base = review[r].base) =>
            LET row == FirstRowOf(table, review[p].word_id).row
                base == review[p].base
            IN  /\ row.total_attempts = base.total_attempts + 2
                /\ \E tie1, tie2 \in 0..1 :
                      <<row.ease_factor, row.interval_days>> \in
                          {C24_Serial(base, review[p].quality,
                                      review[r].quality, tie1, tie2),
                           C24_Serial(base, review[r].quality,
                                      review[p].quality, tie1, tie2)}

\* C25: update_ease_factor on a word with a row leaves ease_factor at
\* min(old + 0.1, 2.5) and interval_days at int(old x new ease_factor) when
\* is_correct, and at max(old - 0.2, 1.3) and max(1, int(old x 0.5))
\* otherwise.
C25_SimplifiedVariantStored ==
    [][(last'.op = "update_ease_factor" /\ HasRow(last'.word_id)) =>
          LET old == stats[last'.word_id]
              row == stats'[last'.word_id]
              up == IF old.ease_factor + 10 < 250 THEN old.ease_factor + 10
                    ELSE 250
              down == IF old.ease_factor - 20 > 130 THEN old.ease_factor - 20
                      ELSE 130
          IN  IF last'.quality = 1
              THEN /\ row.ease_factor = up
                   /\ row.interval_days = (old.interval_days * up) \div 100
              ELSE /\ row.ease_factor = down
                   /\ row.interval_days =
                         IF old.interval_days \div 2 > 1
                         THEN old.interval_days \div 2 ELSE 1]_vars

\* the process_review_result calls made while a session was started
SessionCalls == SelectSeq(submissions.calls, LAMBDA c : c.word_id # 0)

\* C26: in a started session the index is within the word list and equals the
\* number of process_review_result calls made, each call having submitted
\* the word at its index; once the calls are as many as the words the
\* session has ended with its state reset, every word submitted once, in
\* selection order.
C26_SessionWalksItsWords ==
    /\ \A i \in 1..Len(SessionCalls) :
          i <= Len(submissions.selected)
          /\ SessionCalls[i].word_id = submissions.selected[i]
    /\ session.session_started =>
          /\ 0 <= session.current_word_index
          /\ session.current_word_index < session.session_length
          /\ session.session_length = Len(submissions.selected)
          /\ session.current_session_words = submissions.selected
          /\ Len(SessionCalls) = session.current_word_index
          /\ Len(SessionCalls) = Len(submissions.calls)
    /\ ~session.session_started =>
          /\ session = NoSession
          /\ Len(SessionCalls) = Len(submissions.selected)

\* a session of two words has ended after two calls, one of which failed
C26_Witness ==
    /\ ~session.session_started
    /\ Len(submissions.selected) = 2
    /\ Len(SessionCalls) = 2
    /\ \E i \in 1..2 : ~SessionCalls[i].success
    /\ \E i \in 1..2 : SessionCalls[i].success

\* C27: every submitted quality is recorded against the word the view was
\* displaying when it was submitted.
C27_RecordedAgainstShownWord ==
    \A i \in 1..Len(submissions.calls) :
        submissions.calls[i].word_id = submissions.calls[i].shown

\* C28: after process_review_result has been called for the last word of a
\* started session is_session_finished() returns True, and it returns False
\* while words of the session remain.
C28_FinishedReported ==
    [][ /\ (session.session_started
            /\ session.current_word_index = session.session_length - 1
            /\ Len(submissions'.calls) = Len(submissions.calls) + 1)
           => is_session_finished(session')
        /\ (session'.session_started
            /\ session'.current_word_index < session'.session_length)
           => ~is_session_finished(session') ]_vars

\* C29: no two stored words have the same english value.
C29_EnglishUnique ==
    \A v \in DOMAIN catalog, w \in DOMAIN catalog :
        v # w => catalog[v] # catalog[w]

\* C30: auto_add_from_exam returns the number of wrong_note rows that exist
\* after the call and did not exist before it, and afterwards the wrong note
\* holds at most one entry per word_id.
C30_ReturnsRowsAdded ==
    [][last'.op = "auto_add_from_exam" =>
         /\ added_count' = Len(wrong_note') - Len(wrong_note)
         /\ \A i \in 1..Len(wrong_note'), j \in 1..Len(wrong_note') :
               i # j => wrong_note'[i] # wrong_note'[j] ]_vars

====
